---- MODULE Spec2Model ----
(***************************************************************************)
(* AuthClient (src/src/AuthClient.js): a client holding one session token, *)
(* mirrored into an optional key-value store, and four request methods     *)
(* (register, login, getProfile, authed) that each issue one HTTP call and *)
(* map the response to a resolved body or a rejected AuthError.            *)
(*                                                                         *)
(* An async method is two steps: its invocation (URL and headers are built *)
(* from the state at that moment and the call is handed to fetch) and the  *)
(* continuation that runs when the response arrives.                       *)
(*                                                                         *)
(* The repository's other copy of the class (src/unnamed/part_000) adds a  *)
(* keyInPath option and an X-API-Key header; its token, storage and        *)
(* response handling are the same line for line.  config says which copy   *)
(* is running and with which options.  Spec is the session behaviour (all  *)
(* storage kinds, overlapping calls); SpecEnvelope is the response mapping *)
(* (one call at a time, every shape of the response envelope); SpecRequest *)
(* is the building of requests (both copies, every option); SpecGoogle is  *)
(* googleAuth, which the package exports and whose code is in neither copy;*)
(* SpecWire keeps what fetch was handed for each call it has not answered. *)
(***************************************************************************)
EXTENDS Naturals, Sequences, FiniteSets, TLC

\* ---------------------------------------------------------------- bounds
\* Requests that may be awaiting their response at the same time.
MaxInFlight == 2
\* Operations a promise-returning store may have accepted and not yet settled.
MaxPending == 1

\* ------------------------------------------------------ JavaScript values
\* Values are strings; these stand for the non-string values the code meets.
JsNull == "null"
JsUndefined == "undefined"
JsFalse == "false"
JsTrue == "true"
JsZero == "0"
JsEmpty == ""
\* The object a promise-returning getItem hands back.
PromiseVal == "<Promise>"

Falsy == {JsNull, JsUndefined, JsFalse, JsZero, JsEmpty}

\* JavaScript truthiness, as `if (x)`, `x ? a : b` and `x || y` test it.
Truthy(v) == v \notin Falsy

\* a || b
Or(a, b) == IF Truthy(a) THEN a ELSE b

\* String(v), as a template literal `${v}` converts its value.
JsString(v) == IF v = PromiseVal THEN "[object Promise]" ELSE v

\* obj?.field on a parsed JSON value: undefined unless obj is an object.
OptField(obj, f) == IF obj.kind = "object" THEN obj[f] ELSE JsUndefined

\* { ...a, ...b }: the entries of a, overridden and extended by those of b.
Merge(a, b) ==
  [k \in (DOMAIN a) \cup (DOMAIN b) |-> IF k \in DOMAIN b THEN b[k] ELSE a[k]]

\* ------------------------------------------------------------ input sets
Tokens == {"T1", "T2"}

apiKey == "KEY"
apiSecret == "SECRET"
tokenKey == "auth_user_token"

\* JSON values a response body parses to.
JsonNull == [kind |-> "null"]
\* A body resp.json() cannot parse.
Unparseable == [kind |-> "unparseable"]
NoData == [kind |-> "undefined"]
DataWith(t) == [kind |-> "object", user_token |-> t]

Body(s, m, c, e, d) ==
  [kind |-> "object", success |-> s, message |-> m, code |-> c, error |-> e, data |-> d]

\* Bodies of the session behaviour: the success flag and the token vary.
SessionBodies ==
  {Body(s, JsUndefined, JsUndefined, JsUndefined, d) :
     s \in {JsUndefined, JsFalse}, d \in {NoData} \cup {DataWith(t) : t \in Tokens}}

\* Bodies of the response mapping: every field of the envelope varies.
EnvelopeBodies ==
  {Body(s, m, c, e, d) :
     s \in {JsUndefined, JsTrue, JsFalse, JsZero},
     m \in {JsUndefined, JsEmpty, "Bad credentials"},
     c \in {JsUndefined, JsEmpty, "E_CODE"},
     e \in {JsUndefined, "E_ERROR"},
     d \in {NoData, DataWith(JsUndefined), DataWith(JsEmpty), DataWith("T1")}}
    \cup {JsonNull, Unparseable}

Statuses == {200, 401}

\* What awaiting fetch can produce: a response, or the transport's own error.
TransportError == [name |-> "TypeError", message |-> "fetch failed"]
Http(status, body) == [type |-> "http", status |-> status, body |-> body]
NetErr == [type |-> "neterr", error |-> TransportError]

SessionResponses == {Http(s, b) : s \in Statuses, b \in SessionBodies} \cup {NetErr}
EnvelopeResponses == {Http(s, b) : s \in Statuses, b \in EnvelopeBodies} \cup {NetErr}

\* Extra headers a caller hands to authed().
NoExtra == << >>
ExtraHeaders ==
  {NoExtra, [Authorization |-> <<"Bearer X">>], [Accept |-> <<"text/plain">>]}

StorageKinds == {"none", "sync", "async"}

\* The request methods; googleAuth is exported by the package (index.js) and
\* called by its README, its code is not in AuthClient.js.
Apis == {"register", "login", "getProfile", "authed", "googleAuth"}

\* What a caller passes as id_token and as access_token to googleAuth.
GoogleCredentials == {JsUndefined, "G1"}

\* -------------------------------------------------------------- the state
VARIABLES
  config,        \* which copy of the class runs, and its constructor options
  storageKind,   \* this.storage: absent, synchronous, or promise-returning
  store,         \* the storage's content: key -> value
  pending,       \* operations a promise-returning store has not settled yet
  token,         \* this.token
  inflight,      \* per method, its calls handed to fetch and awaiting the response
  wire,          \* history: what fetch was handed for each of those calls
  lastMutation,  \* history: the latest call that assigned this.token
  last           \* the step just taken and what it returned or raised

vars == <<config, storageKind, store, pending, token, inflight, wire, lastMutation, last>>

\* -------------------------------------------------------- the storage API
GetItem(s, k) == IF k \in DOMAIN s THEN s[k] ELSE JsNull
SetItem(s, k, v) == [x \in (DOMAIN s) \cup {k} |-> IF x = k THEN v ELSE s[x]]
RemoveItem(s, k) == [x \in (DOMAIN s) \ {k} |-> s[x]]

EmptyStore == << >>
StoreWith(v) == [x \in {tokenKey} |-> v]

\* A storage call the client does not wait for ends "nostore", "ok", "failed"
\* (it threw, and the throw was caught) or "pending" (a promise was returned
\* and dropped).
StoreOp(op, val) == [op |-> op, val |-> val]

\* ------------------------------------------------------- storage helpers
\* _load(key); fail: a synchronous getItem throws.
_load(key, fail) ==
  IF storageKind = "none" THEN [value |-> JsNull, res |-> "nostore"]
  ELSE IF storageKind = "sync"
    THEN IF fail
      THEN [value |-> JsNull, res |-> "failed"]
      ELSE [value |-> GetItem(store, key), res |-> "ok"]
    ELSE [value |-> PromiseVal, res |-> "pending"]

\* Mutant of _save: the value is written under another key.
_save_wrongKey(key, val, fail) ==
  IF storageKind = "sync" /\ ~fail
    THEN [store |-> store, pending |-> pending, res |-> "ok"]
    ELSE [store |-> store, pending |-> pending, res |-> "nostore"]

\* _save(key, val); fail: a synchronous setItem throws.
_save(key, val, fail) ==
  IF storageKind = "none" THEN [store |-> store, pending |-> pending, res |-> "nostore"]
  ELSE IF storageKind = "sync"
    THEN IF fail
      THEN [store |-> store, pending |-> pending, res |-> "failed"]
      ELSE [store |-> SetItem(store, key, val), pending |-> pending, res |-> "ok"]
    ELSE [store |-> store,
          pending |-> Append(pending, StoreOp("setItem", val)),
          res |-> "pending"]

\* Mutant of _clear: the call removes nothing.
_clear_removesNothing(key, fail) ==
  IF storageKind = "sync" /\ ~fail
    THEN [store |-> store, pending |-> pending, res |-> "ok"]
    ELSE [store |-> store, pending |-> pending, res |-> "nostore"]

\* _clear(key); fail: a synchronous removeItem throws.
_clear(key, fail) ==
  IF storageKind = "none" THEN [store |-> store, pending |-> pending, res |-> "nostore"]
  ELSE IF storageKind = "sync"
    THEN IF fail
      THEN [store |-> store, pending |-> pending, res |-> "failed"]
      ELSE [store |-> RemoveItem(store, key), pending |-> pending, res |-> "ok"]
    ELSE [store |-> store,
          pending |-> Append(pending, StoreOp("removeItem", JsNull)),
          res |-> "pending"]

\* ------------------------------------------------------ internal builders
\* Strings that are taken apart are sequences of pieces; a slash at either end
\* of a string, or inside an API key, is a piece of its own.
baseUrlOption == <<"https://cpanel.backend.mspkapps.in/api/v1">>

\* The two copies of the class in the repository.
Builds == {"AuthClient.js", "part_000"}

\* The options of new AuthClient({ apiKey, baseUrl, keyInPath }); AuthClient.js
\* has no keyInPath option and always puts the key in the path.
Config(build, keyInPath, base, key) ==
  [build |-> build, keyInPath |-> keyInPath, baseUrl |-> base, apiKey |-> key]

DefaultConfig == Config("AuthClient.js", TRUE, baseUrlOption, <<apiKey>>)

\* baseUrl.replace(/\/$/, '')
StripTrailingSlash(u) ==
  IF Len(u) > 0 /\ u[Len(u)] = "/" THEN SubSeq(u, 1, Len(u) - 1) ELSE u

baseUrl == StripTrailingSlash(config.baseUrl)

\* encodeURIComponent: a reserved character becomes its escape.
EncodeURIComponent(u) == [i \in 1..Len(u) |-> IF u[i] = "/" THEN "%2F" ELSE u[i]]

\* Mutant of _buildUrl: the path is joined as it was passed.
_buildUrl_keepsLeadingSlash(path) ==
  IF config.build = "part_000" /\ ~config.keyInPath
    THEN baseUrl \o <<"/">> \o path
    ELSE baseUrl \o <<"/">> \o EncodeURIComponent(config.apiKey) \o <<"/">> \o path

_buildUrl(path) ==
  LET p == IF Len(path) > 0 /\ Head(path) = "/" THEN Tail(path) ELSE path
  IN IF config.build = "part_000" /\ ~config.keyInPath
       THEN baseUrl \o <<"/">> \o p
       ELSE baseUrl \o <<"/">> \o EncodeURIComponent(config.apiKey) \o <<"/">> \o p

\* Mutant of AuthValue: the standard bearer scheme.
AuthValue_bearer(t) == <<"Bearer ", JsString(t)>>

\* `UserToken ${this.token}`
AuthValue(t) == <<"UserToken ", JsString(t)>>

\* 'X-API-Key': this.apiKey, a line of part_000 only.
KeyHeader == IF config.build = "part_000" THEN ("X-API-Key" :> config.apiKey) ELSE << >>

\* Mutant of _headers: the caller's headers are spread first.
_headers_extraFirst(extra) ==
  Merge(extra,
        Merge(Merge(Merge(("Content-Type" :> <<"application/json">>), KeyHeader),
                    ("X-API-Secret" :> <<apiSecret>>)),
              IF Truthy(token) THEN [Authorization |-> AuthValue(token)] ELSE << >>))

_headers(extra) ==
  Merge(Merge(Merge(Merge(("Content-Type" :> <<"application/json">>), KeyHeader),
                    ("X-API-Secret" :> <<apiSecret>>)),
              IF Truthy(token) THEN [Authorization |-> AuthValue(token)] ELSE << >>),
        extra)

\* ------------------------------------------------------- token operations
\* Mutant of setToken: a token already held is kept.
setToken_firstWins(t, fail) ==
  LET eff == IF Truthy(t) THEN _save(tokenKey, t, fail) ELSE _clear(tokenKey, fail)
  IN [token |-> IF Truthy(t) /\ Truthy(token) THEN token ELSE Or(t, JsNull),
      store |-> IF Truthy(t) /\ Truthy(token) THEN store ELSE eff.store,
      pending |-> eff.pending, res |-> eff.res, mutated |-> TRUE]

\* What a call leaves behind: the token and the storage it touched.
setToken(t, fail) ==
  LET eff == IF Truthy(t) THEN _save(tokenKey, t, fail) ELSE _clear(tokenKey, fail)
  IN [token |-> Or(t, JsNull), store |-> eff.store, pending |-> eff.pending,
      res |-> eff.res, mutated |-> TRUE]

\* Mutant of logout: only the persisted copy is removed.
logout_keepsMemory(fail) ==
  LET eff == _clear(tokenKey, fail)
  IN [token |-> token, store |-> eff.store, pending |-> eff.pending,
      res |-> eff.res, mutated |-> TRUE]

logout(fail) == setToken(JsNull, fail)

getAuthHeader == IF Truthy(token) THEN [Authorization |-> AuthValue(token)] ELSE << >>

\* A call that assigns nothing.
Untouched ==
  [token |-> token, store |-> store, pending |-> pending, res |-> "nocall", mutated |-> FALSE]

\* ------------------------------------------------------------- helpers
\* resp.ok
Ok(resp) == resp.status \in 200..299

\* safeJson(resp): a body that does not parse is null.
safeJson(resp) == IF resp.body = Unparseable THEN JsonNull ELSE resp.body

\* new AuthError(message, status, code, response)
AuthError(message, status, code, response) ==
  [name |-> "AuthError", message |-> message, status |-> status, code |-> code,
   response |-> response]

\* Mutant of toError: the error field is preferred to the code field.
toError_errorFirst(resp, json, fallback) ==
  AuthError(Or(Or(OptField(json, "message"), fallback), "Request failed"),
            resp.status,
            Or(Or(OptField(json, "error"), OptField(json, "code")), "REQUEST_FAILED"),
            json)

toError(resp, json, fallback) ==
  AuthError(Or(Or(OptField(json, "message"), fallback), "Request failed"),
            resp.status,
            Or(Or(OptField(json, "code"), OptField(json, "error")), "REQUEST_FAILED"),
            json)

\* Mutant of Failed: any falsy success flag fails the call.
Failed_falsy(resp, json) == ~Ok(resp) \/ ~Truthy(OptField(json, "success"))

\* !resp.ok || json?.success === false
Failed(resp, json) == ~Ok(resp) \/ OptField(json, "success") = JsFalse

\* json?.data?.user_token
UserTokenOf(json) ==
  IF json.kind = "object" /\ json.data.kind = "object" THEN json.data.user_token
  ELSE JsUndefined

NoValue == [kind |-> "none"]
NoError == [name |-> "none"]

Resolved(json, after) == [outcome |-> "resolved", value |-> json, error |-> NoError, after |-> after]
Rejected(err, after) == [outcome |-> "rejected", value |-> NoValue, error |-> err, after |-> after]

\* ---------------------------------------------------- public API methods
\* Each method from the point its awaited fetch settles with resp.
\* Mutant of register: the token of the body is taken over before the
\* response is tested for failure.
register_tokenBeforeCheck(resp, fail) ==
  IF resp.type = "neterr" THEN Rejected(resp.error, Untouched)
  ELSE LET json == safeJson(resp)
           t == UserTokenOf(json)
           after == IF Truthy(t) THEN setToken(t, fail) ELSE Untouched
       IN IF Failed(resp, json)
            THEN Rejected(toError(resp, json, "Register failed"), after)
            ELSE Resolved(json, after)

register(resp, fail) ==
  IF resp.type = "neterr" THEN Rejected(resp.error, Untouched)
  ELSE LET json == safeJson(resp) IN
    IF Failed(resp, json) THEN Rejected(toError(resp, json, "Register failed"), Untouched)
    ELSE LET t == UserTokenOf(json) IN
      Resolved(json, IF Truthy(t) THEN setToken(t, fail) ELSE Untouched)

\* Mutant of login: the token of the response is not taken over.
login_ignoresToken(resp, fail) ==
  IF resp.type = "neterr" THEN Rejected(resp.error, Untouched)
  ELSE LET json == safeJson(resp) IN
    IF Failed(resp, json) THEN Rejected(toError(resp, json, "Login failed"), Untouched)
    ELSE Resolved(json, Untouched)

\* Mutant of login: a call that was awaiting its response when the client
\* logged out drops the token it brings.
login_cancelledByLogout(resp, fail) ==
  IF resp.type = "neterr" THEN Rejected(resp.error, Untouched)
  ELSE LET json == safeJson(resp) IN
    IF Failed(resp, json) THEN Rejected(toError(resp, json, "Login failed"), Untouched)
    ELSE LET t == UserTokenOf(json) IN
      Resolved(json, IF Truthy(t) /\ lastMutation.by # "logout"
                       THEN setToken(t, fail) ELSE Untouched)

\* Mutant of login: setToken is called with whatever the body holds.
login_setsAnyToken(resp, fail) ==
  IF resp.type = "neterr" THEN Rejected(resp.error, Untouched)
  ELSE LET json == safeJson(resp) IN
    IF Failed(resp, json) THEN Rejected(toError(resp, json, "Login failed"), Untouched)
    ELSE Resolved(json, setToken(UserTokenOf(json), fail))

login(resp, fail) ==
  IF resp.type = "neterr" THEN Rejected(resp.error, Untouched)
  ELSE LET json == safeJson(resp) IN
    IF Failed(resp, json) THEN Rejected(toError(resp, json, "Login failed"), Untouched)
    ELSE LET t == UserTokenOf(json) IN
      Resolved(json, IF Truthy(t) THEN setToken(t, fail) ELSE Untouched)

\* Mutant of getProfile: a failed profile refresh signs the client out.
getProfile_clearsOnFailure(resp, fail) ==
  IF resp.type = "neterr" THEN Rejected(resp.error, Untouched)
  ELSE LET json == safeJson(resp) IN
    IF Failed(resp, json)
      THEN Rejected(toError(resp, json, "Profile failed"), setToken(JsNull, fail))
      ELSE Resolved(json, Untouched)

\* Mutant of getProfile: a transport failure is mapped like a server failure.
getProfile_wrapsTransport(resp, fail) ==
  IF resp.type = "neterr"
    THEN Rejected(AuthError("Profile failed", 0, "REQUEST_FAILED", JsonNull), Untouched)
  ELSE LET json == safeJson(resp) IN
    IF Failed(resp, json) THEN Rejected(toError(resp, json, "Profile failed"), Untouched)
    ELSE Resolved(json, Untouched)

getProfile(resp, fail) ==
  IF resp.type = "neterr" THEN Rejected(resp.error, Untouched)
  ELSE LET json == safeJson(resp) IN
    IF Failed(resp, json) THEN Rejected(toError(resp, json, "Profile failed"), Untouched)
    ELSE Resolved(json, Untouched)

\* Mutant of authed: a token in the response is taken over, as login does.
authed_takesToken(resp, fail) ==
  IF resp.type = "neterr" THEN Rejected(resp.error, Untouched)
  ELSE LET json == safeJson(resp) IN
    IF Failed(resp, json) THEN Rejected(toError(resp, json, "Request failed"), Untouched)
    ELSE LET t == UserTokenOf(json) IN
      Resolved(json, IF Truthy(t) THEN setToken(t, fail) ELSE Untouched)

authed(resp, fail) ==
  IF resp.type = "neterr" THEN Rejected(resp.error, Untouched)
  ELSE LET json == safeJson(resp) IN
    IF Failed(resp, json) THEN Rejected(toError(resp, json, "Request failed"), Untouched)
    ELSE Resolved(json, Untouched)

\* The request each method hands to fetch (extra: the headers option of the call).
Request(api, method, path, extra) ==
  [api |-> api, method |-> method, path |-> path, url |-> _buildUrl(path),
   headers |-> _headers(extra), extra |-> extra]

registerRequest == Request("register", "POST", <<"auth/register">>, NoExtra)
loginRequest == Request("login", "POST", <<"auth/login">>, NoExtra)
getProfileRequest ==
  Request("getProfile", "GET",
          IF config.build = "part_000" THEN <<"auth/user/profile">> ELSE <<"user/profile">>,
          NoExtra)
authedRequest(path, method, extra) == Request("authed", method, path, extra)

\* googleAuth({ id_token, access_token }): POST auth/google with both fields.
googleAuthRequest(idToken, accessToken) ==
  Request("googleAuth", "POST", <<"auth/google">>, NoExtra)
    @@ [body |-> [id_token |-> idToken, access_token |-> accessToken]]

\* Mutant of googleAuth: the request is sent whatever the caller passed.
googleAuth_noCheck(idToken, accessToken) ==
  [outcome |-> "send", req |-> googleAuthRequest(idToken, accessToken)]

\* googleAuth up to its fetch: without an id_token and without an access_token
\* it fails before any request is built.
googleAuth(idToken, accessToken) ==
  IF ~Truthy(idToken) /\ ~Truthy(accessToken)
    THEN [outcome |-> "rejected",
          error |-> AuthError("id_token or access_token is required", 400,
                              "MISSING_TOKEN", JsonNull)]
    ELSE [outcome |-> "send", req |-> googleAuthRequest(idToken, accessToken)]

\* googleAuth from the point its awaited fetch settles: as login.
googleAuthResponse(resp, fail) ==
  IF resp.type = "neterr" THEN Rejected(resp.error, Untouched)
  ELSE LET json == safeJson(resp) IN
    IF Failed(resp, json) THEN Rejected(toError(resp, json, "Google auth failed"), Untouched)
    ELSE LET t == UserTokenOf(json) IN
      Resolved(json, IF Truthy(t) THEN setToken(t, fail) ELSE Untouched)

AuthedPaths == {<<"developer/groups">>}
AuthedMethods == {"GET"}

\* ------------------------------------------------------------ the steps
NoReq == [api |-> "none"]
NoResp == [type |-> "none"]
NoArgs == [kind |-> "none"]

Step(op, outcome) ==
  [op |-> op, outcome |-> outcome, value |-> NoValue, error |-> NoError,
   args |-> NoArgs, req |-> NoReq, resp |-> NoResp, storeRes |-> "nocall",
   prev |-> "other"]

InitialStores == {EmptyStore} \cup {StoreWith(t) : t \in Tokens}

\* Whether a storage call can throw: only a synchronous store's can.
FailChoices == IF storageKind = "sync" THEN BOOLEAN ELSE {FALSE}

Idle == [a \in Apis |-> 0]
InFlightCount ==
  inflight["register"] + inflight["login"] + inflight["getProfile"] + inflight["authed"]
    + inflight["googleAuth"]

\* What fetch holds of a call: the init object it was handed, whose headers
\* are the object _headers() returned for that call.
Handed(req) == [api |-> req.api, headers |-> req.headers]

\* The history is kept where traced, and is empty elsewhere.
Wire(traced) == [traced |-> traced, held |-> << >>]

\* Mutant of Hold: the client keeps one headers object and hands it to every
\* call, so the calls fetch has not answered see it rewritten.
Hold_sharedHeaders(w, req) ==
  IF w.traced
    THEN [w EXCEPT !.held =
            Append([i \in 1..Len(@) |-> [api |-> @[i].api, headers |-> req.headers]],
                   Handed(req))]
    ELSE w

\* fetch is handed a call: headers: this._headers() is a new object, its own.
Hold(w, req) == IF w.traced THEN [w EXCEPT !.held = Append(@, Handed(req))] ELSE w

\* The calls of api that fetch may answer next: any of them.
HeldBy(w, api) ==
  IF w.traced THEN {i \in 1..Len(w.held) : w.held[i].api = api} ELSE {0}

\* fetch answers the i-th call it holds.
Release(w, i) ==
  IF w.traced
    THEN [w EXCEPT !.held = SubSeq(@, 1, i - 1) \o SubSeq(@, i + 1, Len(@))]
    ELSE w

\* new AuthClient({ apiKey, apiSecret, storage, fetch })
InitTraced(kinds, configs, traced) ==
  \E kind \in kinds, st \in InitialStores, c \in configs :
    /\ config = c
    /\ storageKind = kind
    /\ store = IF kind = "none" THEN EmptyStore ELSE st
    /\ \E fail \in FailChoices :
         LET l == _load(tokenKey, fail) IN
           /\ token = l.value
           /\ pending = IF l.res = "pending" THEN <<StoreOp("getItem", JsNull)>> ELSE << >>
           /\ lastMutation = [by |-> "constructor", res |-> l.res]
           /\ last = [Step("constructor", "returned") EXCEPT !.storeRes = l.res]
    /\ inflight = Idle
    /\ wire = Wire(traced)

InitWith(kinds, configs) == InitTraced(kinds, configs, FALSE)

InitOf(kinds) == InitWith(kinds, {DefaultConfig})

Init == InitOf(StorageKinds)

\* The process starts again: a new client is constructed over the same storage,
\* and the requests of the old one are gone with it.
Construct ==
  \E fail \in FailChoices :
    LET l == _load(tokenKey, fail)
        p == IF l.res = "pending" THEN Append(pending, StoreOp("getItem", JsNull)) ELSE pending
    IN /\ Len(p) <= MaxPending
       /\ token' = l.value
       /\ pending' = p
       /\ lastMutation' = [by |-> "constructor", res |-> l.res]
       /\ last' = [Step("constructor", "returned") EXCEPT !.storeRes = l.res]
       /\ inflight' = Idle
       /\ wire' = Wire(wire.traced)
       /\ UNCHANGED <<config, storageKind, store>>

\* A call's effect on the token and the storage.
Apply(after, by) ==
  /\ Len(after.pending) <= MaxPending
  /\ token' = after.token
  /\ store' = after.store
  /\ pending' = after.pending
  /\ lastMutation' = IF after.mutated THEN [by |-> by, res |-> after.res] ELSE lastMutation

SetToken ==
  \E t \in Tokens \cup {JsNull, JsEmpty}, fail \in FailChoices :
    LET after == setToken(t, fail) IN
      /\ Apply(after, "setToken")
      /\ last' = [Step("setToken", "returned") EXCEPT !.storeRes = after.res]
      /\ UNCHANGED <<config, storageKind, inflight, wire>>

Logout ==
  \E fail \in FailChoices :
    LET after == logout(fail) IN
      /\ Apply(after, "logout")
      /\ last' = [Step("logout", "returned") EXCEPT !.storeRes = after.res]
      /\ UNCHANGED <<config, storageKind, inflight, wire>>

GetAuthHeader ==
  /\ last' = [Step("getAuthHeader", "returned") EXCEPT !.value = getAuthHeader]
  /\ UNCHANGED <<config, storageKind, store, pending, token, inflight, wire, lastMutation>>

\* A method is called: its request is built and handed to fetch.
Send(req) ==
  /\ InFlightCount < MaxInFlight
  /\ inflight' = [inflight EXCEPT ![req.api] = @ + 1]
  /\ wire' = Hold(wire, req)
  /\ last' = [Step("send", "pending") EXCEPT !.req = req]
  /\ UNCHANGED <<config, storageKind, store, pending, token, lastMutation>>

CallRegister == Send(registerRequest)
CallLogin == Send(loginRequest)
CallGetProfile == Send(getProfileRequest)
CallAuthedWith(paths, extras) ==
  \E path \in paths, method \in AuthedMethods, extra \in extras :
    Send(authedRequest(path, method, extra))

CallAuthed == CallAuthedWith(AuthedPaths, ExtraHeaders)

\* googleAuth is called: it rejects at once, or its request is handed to fetch.
CallGoogleAuth ==
  \E idToken \in GoogleCredentials, accessToken \in GoogleCredentials :
    LET r == googleAuth(idToken, accessToken) IN
      IF r.outcome = "rejected"
        THEN /\ last' = [Step("googleAuth", "rejected") EXCEPT
                           !.error = r.error,
                           !.args = [id_token |-> idToken, access_token |-> accessToken]]
             /\ UNCHANGED <<config, storageKind, store, pending, token, inflight,
                            wire, lastMutation>>
        ELSE Send(r.req)

\* The method api from the point its awaited fetch settles with resp.
Settle(api, resp, fail) ==
  CASE api = "register" -> register(resp, fail)
    [] api = "login" -> login(resp, fail)
    [] api = "getProfile" -> getProfile(resp, fail)
    [] api = "authed" -> authed(resp, fail)
    [] api = "googleAuth" -> googleAuthResponse(resp, fail)

\* History of a register or login call that resolves with a token in its
\* body: the step before it was the end of another register or login call
\* resolving with one ("signIn": the two calls awaited their responses at the
\* same time), or a logout or setToken that cleared the token ("cleared": it
\* was made while this call awaited its response), or anything else.
Preceding(api, r) ==
  IF api \in {"register", "login"} /\ r.outcome = "resolved"
       /\ Truthy(UserTokenOf(r.value))
    THEN IF last.op \in {"register", "login"} /\ last.outcome = "resolved"
              /\ Truthy(UserTokenOf(last.value))
           THEN "signIn"
           ELSE IF last.op \in {"logout", "setToken"} /\ ~Truthy(token)
             THEN "cleared"
             ELSE "other"
    ELSE "other"

\* The awaited fetch of a call settles and the method runs to its end.
Complete(responses) ==
  \E api \in Apis, resp \in responses, fail \in FailChoices :
    LET r == Settle(api, resp, fail) IN
      /\ inflight[api] > 0
      /\ Apply(r.after, api)
      /\ inflight' = [inflight EXCEPT ![api] = @ - 1]
      /\ \E i \in HeldBy(wire, api) : wire' = Release(wire, i)
      /\ last' = [op |-> api, outcome |-> r.outcome, value |-> r.value,
                  error |-> r.error, args |-> NoArgs, req |-> NoReq, resp |-> resp,
                  storeRes |-> r.after.res, prev |-> Preceding(api, r)]
      /\ UNCHANGED <<config, storageKind>>

\* A promise-returning store settles its oldest operation; fail: it rejects,
\* and nothing handles the rejection.
StoreSettle ==
  \E fail \in BOOLEAN :
    /\ pending # << >>
    /\ LET o == Head(pending) IN
         /\ store' = IF fail THEN store
                     ELSE IF o.op = "setItem" THEN SetItem(store, tokenKey, o.val)
                     ELSE IF o.op = "removeItem" THEN RemoveItem(store, tokenKey)
                     ELSE store
         /\ last' = [Step(o.op, IF fail THEN "unhandledRejection" ELSE "settled")
                       EXCEPT !.storeRes = IF fail THEN "failed" ELSE "ok"]
    /\ pending' = Tail(pending)
    /\ UNCHANGED <<config, storageKind, token, inflight, wire, lastMutation>>

CompleteSession == Complete(SessionResponses)

Next ==
  \/ Construct
  \/ SetToken
  \/ Logout
  \/ GetAuthHeader
  \/ CallRegister
  \/ CallLogin
  \/ CallGetProfile
  \/ CallAuthed
  \/ CompleteSession
  \/ StoreSettle

Spec == Init /\ [][Next]_vars

\* ---------------------------------------------- the response mapping
\* One call at a time, as a caller that awaits each call makes them, against
\* every response of the envelope.
Alone(call) == inflight = Idle /\ call

CompleteEnvelope == Complete(EnvelopeResponses)

InitEnvelope == InitOf({"none", "sync"})

NextEnvelope ==
  \/ Alone(CallRegister)
  \/ Alone(CallLogin)
  \/ Alone(CallGetProfile)
  \/ Alone(CallAuthed)
  \/ CompleteEnvelope
  \/ Logout

SpecEnvelope == InitEnvelope /\ [][NextEnvelope]_vars

\* ---------------------------------------------- the building of requests
\* Both copies of the class with every option, one call at a time; what the
\* server answers does not matter to what was sent.
RequestBaseUrls ==
  {<<"https://host/api/v1">>, <<"https://host/api/v1", "/">>,
   <<"https://host/api/v1", "/", "/">>}

RequestApiKeys == {<<"abc">>, <<"a", "/", "b">>}

RequestConfigs ==
  {Config("AuthClient.js", TRUE, b, k) : b \in RequestBaseUrls, k \in RequestApiKeys}
    \cup {Config("part_000", kip, b, k) :
            kip \in BOOLEAN, b \in RequestBaseUrls, k \in RequestApiKeys}

RequestPaths == {<<"auth/login">>, <<"/", "auth/login">>, <<"/", "/", "auth/login">>}

RequestExtraHeaders ==
  ExtraHeaders \cup {("Content-Type" :> <<"text/plain">>) @@ ("X-API-Key" :> <<"other">>)}

RequestResponses == {Http(200, JsonNull)}

CallAuthedRequest == CallAuthedWith(RequestPaths, RequestExtraHeaders)

CompleteRequest == Complete(RequestResponses)

InitRequest == InitWith({"none", "sync"}, RequestConfigs)

NextRequest ==
  \/ SetToken
  \/ Alone(CallRegister)
  \/ Alone(CallLogin)
  \/ Alone(CallGetProfile)
  \/ Alone(CallAuthedRequest)
  \/ CompleteRequest

SpecRequest == InitRequest /\ [][NextRequest]_vars

\* ------------------------------------------------ the calls fetch holds
\* Overlapping calls and token changes, with what fetch was handed kept.
WireResponses ==
  {Http(200, Body(JsUndefined, JsUndefined, JsUndefined, JsUndefined, DataWith(t))) :
     t \in Tokens}
    \cup {Http(401, Body(JsFalse, JsUndefined, JsUndefined, JsUndefined, NoData))}

CompleteWire == Complete(WireResponses)

InitWire == InitTraced({"none", "sync"}, {DefaultConfig}, TRUE)

NextWire ==
  \/ SetToken
  \/ Logout
  \/ CallLogin
  \/ CallGetProfile
  \/ CallAuthed
  \/ CompleteWire

SpecWire == InitWire /\ [][NextWire]_vars

\* ------------------------------------------------------ the Google sign-in
CompleteGoogle == Complete(SessionResponses)

InitGoogle == InitOf({"none", "sync"})

NextGoogle ==
  \/ CallGoogleAuth
  \/ CompleteGoogle
  \/ Logout

SpecGoogle == InitGoogle /\ [][NextGoogle]_vars

\* ------------------------------------------------------------ the claims
\* The body v carries the token field t: v.data.user_token = t.
CarriesToken(v, t) == v.kind = "object" /\ v.data.kind = "object" /\ v.data.user_token = t

\* The step just taken is a register or login call resolving with token t.
SignedIn(t) ==
  /\ last.op \in {"register", "login"}
  /\ last.outcome = "resolved"
  /\ CarriesToken(last.value, t)

\* The store holds v under 'auth_user_token'.
Persisted(v) == tokenKey \in DOMAIN store /\ store[tokenKey] = v

\* C1 as stated: when a register or login call resolves with a body carrying
\* the token T, the held token is T and a configured store holds T.
C1_Original ==
  \A t \in Tokens :
    SignedIn(t) => token = t /\ (storageKind # "none" => Persisted(t))

\* C1, amended: when a register or login call resolves with a body carrying
\* the token T, the held token is T; a synchronous store holds T if its setItem
\* did not throw, and a promise-returning store has been handed the write of T,
\* which it has not yet settled.
C1_TokenHeld ==
  \A t \in Tokens :
    SignedIn(t) =>
      /\ token = t
      /\ (storageKind = "sync" /\ last.storeRes = "ok" => Persisted(t))
      /\ (storageKind = "async" =>
            pending # << >> /\ pending[Len(pending)] = StoreOp("setItem", t))

C1_Witness ==
  /\ SignedIn("T1") /\ last.op = "login"
  /\ storageKind = "sync" /\ last.storeRes = "ok"
  /\ token = "T1" /\ Persisted("T1")

\* The held token and the persisted copy agree: the same string when a token
\* is held, no entry when none is.
Agree ==
  IF Truthy(token) THEN Persisted(token) ELSE tokenKey \notin DOMAIN store

\* C2 as stated, on a synchronous store: after any of setToken, logout,
\* register, login, getProfile and authed the held token and the persisted
\* copy agree.
C2_Original ==
  (storageKind = "sync" /\ last.op \in {"setToken", "logout"} \cup Apis) => Agree

\* C2, amended: on a synchronous store the held token and the persisted copy
\* agree whenever the storage call of the latest assignment of the token
\* (getItem at construction, setItem, removeItem) did not throw.
C2_Consistent ==
  (storageKind = "sync" /\ lastMutation.res = "ok") => Agree

C2_Witness ==
  /\ storageKind = "sync" /\ lastMutation = [by |-> "setToken", res |-> "ok"]
  /\ last.op = "getProfile"
  /\ token = "T2" /\ Persisted("T2")

\* The step just taken is the end of a call of a request method that got an
\* HTTP response.
Answered == last.op \in Apis /\ last.resp.type = "http"

\* The body as parsed: null when it does not parse.
ParsedBody(resp) == IF resp.body = Unparseable THEN JsonNull ELSE resp.body

\* A field of a parsed body that is present and not empty.
HasField(json, f) == json.kind = "object" /\ json[f] \notin {JsUndefined, JsEmpty}

\* The response is a failure: a non-success status or success exactly false.
ServerFailure(resp) ==
  \/ resp.status < 200
  \/ resp.status > 299
  \/ (ParsedBody(resp).kind = "object" /\ ParsedBody(resp).success = JsFalse)

Fallback(api) ==
  CASE api = "register" -> "Register failed"
    [] api = "login" -> "Login failed"
    [] api = "getProfile" -> "Profile failed"
    [] api = "authed" -> "Request failed"
    [] api = "googleAuth" -> "Google auth failed"

\* C3: whichever request method was called, a non-success status or a body
\* with success exactly false rejects the call with one error whose message is
\* the body's (non-empty) message else the method's fallback, whose status is
\* the HTTP status, whose code is the body's (non-empty) code, else its error,
\* else 'REQUEST_FAILED', and whose payload is the parsed body, or null.
C3_ErrorMapping ==
  (Answered /\ ServerFailure(last.resp)) =>
    LET json == ParsedBody(last.resp) IN
      /\ last.outcome = "rejected"
      /\ last.error.name = "AuthError"
      /\ last.error.message =
           IF HasField(json, "message") THEN json.message ELSE Fallback(last.op)
      /\ last.error.status = last.resp.status
      /\ last.error.code =
           IF HasField(json, "code") THEN json.code
           ELSE IF HasField(json, "error") THEN json.error
           ELSE "REQUEST_FAILED"
      /\ last.error.response = json

C3_Witness ==
  /\ Answered /\ last.op = "getProfile" /\ last.outcome = "rejected"
  /\ last.resp.status = 200 /\ last.resp.body.kind = "object"
  /\ last.resp.body.success = JsFalse
  /\ last.resp.body.code = "E_CODE" /\ last.resp.body.error = "E_ERROR"
  /\ last.error.code = "E_CODE" /\ last.error.message = "Profile failed"

\* The step just taken is a call of getProfile or authed, made while the
\* latest assignment of the token is that of `by`.
SentAfter(by) ==
  /\ last.op = "send"
  /\ last.req.api \in {"getProfile", "authed"}
  /\ lastMutation.by = by

HasAuthorization(h) == "Authorization" \in DOMAIN h

\* C4 as stated: after logout(), every getProfile or authed call made before a
\* new token is set sends headers with no Authorization header.
C4_Original ==
  SentAfter("logout") => ~HasAuthorization(last.req.headers)

\* C4, amended: after logout(), a getProfile or authed call made before a new
\* token is set sends no Authorization header of the client's: the headers
\* carry one only when the caller of authed passed it, and then the caller's.
C4_NoClientAuthorization ==
  SentAfter("logout") =>
    IF HasAuthorization(last.req.extra)
      THEN /\ HasAuthorization(last.req.headers)
           /\ last.req.headers["Authorization"] = last.req.extra["Authorization"]
      ELSE ~HasAuthorization(last.req.headers)

C4_Witness ==
  /\ SentAfter("logout") /\ last.req.api = "getProfile"
  /\ ~HasAuthorization(last.req.headers)
  /\ storageKind = "sync" /\ tokenKey \in DOMAIN store

\* The latest assignment of the token cleared it: logout(), or setToken of
\* null or of the empty string.
Cleared == lastMutation.by \in {"logout", "setToken"} /\ ~Truthy(token)

\* C5 as stated, on a synchronous store: after setToken(null), setToken('') or
\* logout() the held token and the persisted entry are gone, and a client
\* constructed afterwards over the same storage holds no token.
C5_Original ==
  [][(storageKind = "sync" /\ Cleared) =>
       /\ token = JsNull /\ tokenKey \notin DOMAIN store
       /\ (last'.op = "constructor" => token' = JsNull)]_vars

\* C5, amended: setToken(null), setToken('') and logout() clear the held
\* token; with no store, or with a synchronous store whose removeItem did not
\* throw, no entry is persisted and a client constructed afterwards over the
\* same storage holds no token.
C5_Cleared ==
  [][Cleared =>
       /\ token = JsNull
       /\ (storageKind = "none" \/ (storageKind = "sync" /\ lastMutation.res = "ok")) =>
            /\ tokenKey \notin DOMAIN store
            /\ (last'.op = "constructor" => token' = JsNull)]_vars

C5_Witness ==
  /\ Cleared /\ lastMutation = [by |-> "setToken", res |-> "ok"]
  /\ storageKind = "sync" /\ last.op = "setToken"
  /\ token = JsNull /\ tokenKey \notin DOMAIN store

\* C6 as stated: a login resolving with a body carrying the token T resolves
\* with that body, and every getProfile or authed call made before the token
\* is assigned again sends Authorization: 'UserToken T'.
C6_Original ==
  /\ (last.op = "login" /\ last.outcome = "resolved") => last.value = ParsedBody(last.resp)
  /\ SentAfter("login") =>
       /\ HasAuthorization(last.req.headers)
       /\ last.req.headers["Authorization"] = <<"UserToken ", token>>

\* C6, amended: a login resolving with a body carrying the token T resolves
\* with that body, and every call made before the token is assigned again
\* sends Authorization: 'UserToken T' if it is a getProfile call or an authed
\* call whose caller passed no Authorization header; otherwise the caller's.
C6_LoginThenProfile ==
  /\ (last.op = "login" /\ last.outcome = "resolved") => last.value = ParsedBody(last.resp)
  /\ SentAfter("login") =>
       /\ token \in Tokens
       /\ HasAuthorization(last.req.headers)
       /\ last.req.headers["Authorization"] =
            IF HasAuthorization(last.req.extra)
              THEN last.req.extra["Authorization"]
              ELSE <<"UserToken ", token>>

C6_Witness ==
  /\ SentAfter("login") /\ last.req.api = "getProfile" /\ token = "T1"
  /\ last.req.headers["Authorization"] = <<"UserToken ", "T1">>

\* The step being taken ends a call of api.
Ends(api) == last'.op = api /\ last'.outcome \in {"resolved", "rejected"}

\* C7 as stated: a getProfile call that the server fails while a token is
\* held leaves the client with no token and no persisted copy.
C7_Original ==
  [][(Ends("getProfile") /\ last'.outcome = "rejected" /\ last'.resp.type = "http"
        /\ token \in Tokens) =>
       token' = JsNull /\ tokenKey \notin DOMAIN store']_vars

\* C7, amended: a getProfile call that rejects leaves the held token and the
\* persisted copy as they were.
C7_ProfileFailureKeepsToken ==
  [][(Ends("getProfile") /\ last'.outcome = "rejected") =>
       token' = token /\ store' = store]_vars

C7_Witness ==
  /\ last.op = "getProfile" /\ last.outcome = "rejected" /\ last.resp.type = "http"
  /\ last.resp.status = 401
  /\ token = "T1" /\ storageKind = "sync" /\ Persisted("T1")

\* C8: getProfile, authed and getAuthHeader leave the held token and the
\* persisted copy as they were, whether the call resolves or rejects.
C8_OnlySignInChangesToken ==
  [][(Ends("getProfile") \/ Ends("authed") \/ last'.op = "getAuthHeader") =>
       /\ token' = token /\ store' = store /\ pending' = pending
       /\ lastMutation' = lastMutation]_vars

C8_Witness ==
  /\ last.op = "authed" /\ last.outcome = "resolved"
  /\ CarriesToken(last.value, "T2")
  /\ token = "T1" /\ storageKind = "sync" /\ Persisted("T1")

\* C9 as stated: a failure of the store never reaches the caller, neither as
\* an error thrown nor as a rejection nobody handles.
C9_BestEffort == last.outcome \notin {"threw", "unhandledRejection"}

\* C10: a call resolves exactly when the status is a success status and the
\* parsed body does not carry success exactly false, and it resolves with the
\* parsed body; a success status with an unparseable body resolves with null
\* and leaves the token and the persisted copy as they were.
C10_ResolvesOnSuccess ==
  [][(last'.op \in Apis /\ last'.resp.type = "http") =>
       /\ last'.outcome = IF ServerFailure(last'.resp) THEN "rejected" ELSE "resolved"
       /\ last'.outcome = "resolved" => last'.value = ParsedBody(last'.resp)
       /\ (last'.resp.body = Unparseable /\ last'.resp.status = 200) =>
            /\ last'.outcome = "resolved" /\ last'.value = JsonNull
            /\ token' = token /\ store' = store]_vars

C10_Witness ==
  /\ last.op = "login" /\ last.resp.type = "http"
  /\ last.resp.body = Unparseable /\ last.resp.status = 200
  /\ last.outcome = "resolved" /\ last.value = JsonNull
  /\ token = "T1"

\* C11: when the transport itself fails (fetch rejects), the call of whichever
\* request method rejects with the very error the transport raised, not with
\* the mapped error type, and the request is not issued again: the call is
\* over and nothing new awaits a response.
C11_TransportErrorPropagates ==
  [][(last'.op \in Apis /\ last'.resp.type = "neterr") =>
       /\ last'.outcome = "rejected"
       /\ last'.error = last'.resp.error
       /\ last'.error.name # "AuthError"
       /\ inflight' = [inflight EXCEPT ![last'.op] = @ - 1]
       /\ token' = token /\ store' = store /\ pending' = pending]_vars

C11_Witness ==
  /\ last.op = "getProfile" /\ last.resp.type = "neterr"
  /\ last.outcome = "rejected" /\ last.error = TransportError
  /\ inflight = Idle /\ token = "T1"

\* The step being taken is a call of googleAuth that was passed neither an
\* id_token nor an access_token.
GoogleCallWithoutToken ==
  \/ /\ last'.op = "googleAuth" /\ last'.args # NoArgs
     /\ ~Truthy(last'.args.id_token) /\ ~Truthy(last'.args.access_token)
  \/ /\ last'.op = "send" /\ last'.req.api = "googleAuth"
     /\ ~Truthy(last'.req.body.id_token) /\ ~Truthy(last'.req.body.access_token)

\* C12: a googleAuth call passed neither an id_token nor an access_token
\* rejects at once with an error whose code is 'MISSING_TOKEN', hands no
\* request to fetch, and leaves the held token and the store as they were.
C12_MissingGoogleToken ==
  [][GoogleCallWithoutToken =>
       /\ last'.op = "googleAuth" /\ last'.outcome = "rejected"
       /\ last'.error.code = "MISSING_TOKEN"
       /\ last'.req = NoReq /\ inflight' = inflight
       /\ token' = token /\ store' = store /\ pending' = pending]_vars

C12_Witness ==
  /\ last.op = "googleAuth" /\ last.outcome = "rejected"
  /\ last.args = [id_token |-> JsUndefined, access_token |-> JsUndefined]
  /\ last.error.code = "MISSING_TOKEN"
  /\ inflight = Idle /\ token = "T1" /\ lastMutation.by = "googleAuth"

\* The headers the client adds on its own: Content-Type, the secret, the key
\* if withKey, and Authorization when a token string is held.
ClientHeaders(withKey) ==
  [k \in {"Content-Type", "X-API-Secret"}
          \cup (IF withKey THEN {"X-API-Key"} ELSE {})
          \cup (IF token \in Tokens THEN {"Authorization"} ELSE {}) |->
     CASE k = "Content-Type" -> <<"application/json">>
       [] k = "X-API-Secret" -> <<apiSecret>>
       [] k = "X-API-Key" -> config.apiKey
       [] k = "Authorization" -> <<"UserToken ", token>>]

\* The headers h with every entry of the caller's extra replacing or adding.
Overridden(h, extra) ==
  [k \in (DOMAIN h) \cup (DOMAIN extra) |-> IF k \in DOMAIN extra THEN extra[k] ELSE h[k]]

\* C13 as stated: every request's headers are Content-Type: application/json,
\* the API key and the API secret as custom headers, and Authorization
\* 'UserToken <token>' exactly when a token is held, with the caller's extra
\* headers overriding same-named entries.
C13_Original ==
  last.op = "send" => last.req.headers = Overridden(ClientHeaders(TRUE), last.req.extra)

\* C13, amended: for a client with no store or a synchronous store, every
\* request's headers are Content-Type: application/json, the API secret as
\* X-API-Secret, the API key as X-API-Key only in the copy of the client that
\* has the keyInPath option (the other copy sends the key in the URL path
\* alone), and Authorization 'UserToken <token>' exactly when a token is held,
\* with the caller's extra headers overriding same-named entries.
C13_Headers ==
  last.op = "send" =>
    last.req.headers = Overridden(ClientHeaders(config.build = "part_000"), last.req.extra)

C13_Witness ==
  /\ last.op = "send" /\ last.req.api = "authed" /\ config.build = "part_000"
  /\ token = "T1" /\ "Content-Type" \in DOMAIN last.req.extra
  /\ last.req.headers["Content-Type"] = <<"text/plain">>
  /\ last.req.headers["X-API-Key"] = <<"other">>
  /\ last.req.headers["X-API-Secret"] = <<apiSecret>>
  /\ last.req.headers["Authorization"] = <<"UserToken ", "T1">>

\* u without its last piece if that is a slash; without its first, if that is.
WithoutTrailingSlash(u) ==
  IF Len(u) > 0 /\ u[Len(u)] = "/" THEN SubSeq(u, 1, Len(u) - 1) ELSE u
WithoutLeadingSlash(u) ==
  IF Len(u) > 0 /\ u[1] = "/" THEN SubSeq(u, 2, Len(u)) ELSE u

\* The key with each reserved character percent-encoded.
PercentEncoded(k) == [i \in DOMAIN k |-> IF k[i] = "/" THEN "%2F" ELSE k[i]]

\* base/key/path in path-embedded mode, base/path in header-only mode.
Joined(key, path) ==
  IF config.keyInPath
    THEN WithoutTrailingSlash(config.baseUrl) \o <<"/">> \o key \o <<"/">>
           \o WithoutLeadingSlash(path)
    ELSE WithoutTrailingSlash(config.baseUrl) \o <<"/">> \o WithoutLeadingSlash(path)

\* C14 as stated: the request URL is the base URL without a trailing slash
\* joined with '{apiKey}/{path}' (path-embedded) or '{path}' (header-only),
\* the path without a leading slash.
C14_Original ==
  last.op = "send" => last.req.url = Joined(config.apiKey, last.req.path)

\* C14, amended: the request URL is the base URL with one trailing slash
\* stripped, joined with '{encodeURIComponent(apiKey)}/{path}' (path-embedded)
\* or '{path}' (header-only), with one leading slash stripped from the path:
\* base 'https://host/api/v1', key 'abc', path 'auth/login' give
\* 'https://host/api/v1/abc/auth/login' resp. 'https://host/api/v1/auth/login',
\* and a path with and without a leading slash yield the same URL.
C14_Url ==
  /\ last.op = "send" => last.req.url = Joined(PercentEncoded(config.apiKey), last.req.path)
  /\ (last.op = "send" /\ last.req.path = <<"auth/login">>
        /\ config.baseUrl = <<"https://host/api/v1">> /\ config.apiKey = <<"abc">>) =>
       last.req.url = IF config.keyInPath
                        THEN <<"https://host/api/v1", "/", "abc", "/", "auth/login">>
                        ELSE <<"https://host/api/v1", "/", "auth/login">>
  /\ \A p \in RequestPaths : Head(p) # "/" => _buildUrl(<<"/">> \o p) = _buildUrl(p)

C14_Witness ==
  /\ last.op = "send" /\ last.req.api = "authed"
  /\ config = Config("part_000", FALSE, <<"https://host/api/v1", "/">>, <<"a", "/", "b">>)
  /\ last.req.path = <<"/", "auth/login">>
  /\ last.req.url = <<"https://host/api/v1", "/", "auth/login">>

\* C15 as stated, for a store whose getItem does not throw: a client just
\* constructed holds T if the store holds T under 'auth_user_token' and no
\* token if there is no store or no value under that key, and construction
\* raised nothing.
C15_LoadsPersisted ==
  (last.op = "constructor" /\ last.storeRes # "failed") =>
    /\ last.outcome = "returned"
    /\ token = IF storageKind # "none" /\ tokenKey \in DOMAIN store
                 THEN store[tokenKey]
                 ELSE JsNull

\* C16 as stated: in every state the held token is null or a non-empty string,
\* for every kind of store and right after construction too, and getAuthHeader
\* returns {Authorization: 'UserToken <that string>'} or {} accordingly.
C16_TwoStates ==
  /\ token \in {JsNull} \cup Tokens
  /\ last.op = "getAuthHeader" =>
       last.value = IF token \in Tokens
                      THEN [Authorization |-> <<"UserToken ", token>>]
                      ELSE << >>

\* C17: a register or login call that rejects, be it for a non-success
\* status, a body with success false or a transport failure, leaves the held
\* token and the persisted copy exactly as they were before it.
C17_RejectedSignInKeepsToken ==
  [][((Ends("register") \/ Ends("login")) /\ last'.outcome = "rejected") =>
       /\ token' = token /\ store' = store /\ pending' = pending
       /\ lastMutation' = lastMutation]_vars

C17_Witness ==
  /\ last.op = "register" /\ last.outcome = "rejected"
  /\ last.resp.type = "http" /\ last.resp.status = 200
  /\ last.resp.body.success = JsFalse /\ CarriesToken(last.resp.body, "T2")
  /\ token = "T1" /\ storageKind = "sync" /\ Persisted("T1")

\* The body v carries no token field: v is not an object, or its data is
\* absent, or data.user_token is absent or empty.
NoTokenField(v) ==
  ~(v.kind = "object" /\ v.data.kind = "object"
      /\ v.data.user_token \notin {JsUndefined, JsEmpty})

ProfileOrAuthedSent ==
  /\ last.op = "send" /\ last.req.api \in {"getProfile", "authed"}
  /\ token \in {JsNull} \cup Tokens

\* Every call fetch held before the step and still holds after it has the
\* headers it was handed: the step added one call, or answered one, or neither.
InFlightKept ==
  \/ wire'.held = wire.held
  \/ /\ Len(wire'.held) = Len(wire.held) + 1
     /\ SubSeq(wire'.held, 1, Len(wire.held)) = wire.held
  \/ \E i \in 1..Len(wire.held) :
       wire'.held = SubSeq(wire.held, 1, i - 1) \o SubSeq(wire.held, i + 1, Len(wire.held))

====
